---- MODULE Spec2Model ----
(***************************************************************************)
(* Model of the BLK-to-JSON converter core (src/src/main.rs):              *)
(*   extract_block  - brace-depth block extractor                          *)
(*   parse_input    - two regex passes (line, quad) over the two blocks    *)
(*                                                                         *)
(* A text is a sequence of characters.  A character is a one-character     *)
(* string, or, for a character outside ASCII, the string "U+XXXX" naming   *)
(* its code point.  Offsets are 0-based as in the Rust source; the char at *)
(* offset i of s is s[i+1].                                                *)
(***************************************************************************)
EXTENDS Integers, Sequences, FiniteSets, TLC

\* ------------------------------------------------------------------------
\* Characters: UTF-8 width, White_Space, simple case folding
\* ------------------------------------------------------------------------

Width2 == {"U+00E9", "U+00A0", "U+0085", "U+017F",
           "U+041B", "U+0427", "U+0433", "U+0435", "U+0438", "U+043A", "U+043B", "U+043D",
           "U+043E", "U+0440", "U+0442", "U+0443", "U+0445", "U+044B", "U+044C", "U+044F",
           "U+0451"}
Width3 == {"U+212A", "U+20AC", "U+2028", "U+3000"}
Width4 == {"U+1F600"}

\* char::len_utf8 of one character
Utf8Len(c) ==
    IF c \in Width2 THEN 2 ELSE IF c \in Width3 THEN 3 ELSE IF c \in Width4 THEN 4 ELSE 1

\* Unicode White_Space: regex \s (Unicode mode) and str::trim
WhiteSpace == {" ", "\t", "\n", "\r", "\f", "U+000B", "U+0085", "U+00A0", "U+2028", "U+3000"}

IsSpace(c) == c \in WhiteSpace

UpperCase == <<"A","B","C","D","E","F","G","H","I","J","K","L","M","N","O","P","Q","R","S","T","U","V","W","X","Y","Z">>
LowerCase == <<"a","b","c","d","e","f","g","h","i","j","k","l","m","n","o","p","q","r","s","t","u","v","w","x","y","z">>

\* simple case folding used by (?i): ASCII letters, plus the two non-ASCII
\* characters that fold onto ASCII letters (long s, Kelvin sign)
FoldTable ==
    [c \in {UpperCase[k] : k \in 1..26} \cup {"U+017F", "U+212A"} |->
        IF c = "U+017F" THEN "s"
        ELSE IF c = "U+212A" THEN "k"
        ELSE LowerCase[CHOOSE k \in 1..26 : UpperCase[k] = c]]

FoldCase(c) == IF c \in DOMAIN FoldTable THEN FoldTable[c] ELSE c

\* ------------------------------------------------------------------------
\* Strings: length in bytes, byte offsets, byte-range slicing
\* ------------------------------------------------------------------------

\* number of bytes of the first k characters of s
ByteOff(s, k) ==
    k + Cardinality({j \in 1..k : Utf8Len(s[j]) >= 2})
      + Cardinality({j \in 1..k : Utf8Len(s[j]) >= 3})
      + Cardinality({j \in 1..k : Utf8Len(s[j]) >= 4})

\* str::len
ByteLen(s) == ByteOff(s, Len(s))

\* the k with ByteOff(s, k) = b, or -1 when byte offset b is inside a
\* character or past the end (str::is_char_boundary fails)
CharIndexOfByte(s, b) ==
    LET Among(ks) == IF ks = {} THEN -1 ELSE CHOOSE k \in ks : TRUE
        Within(lo, hi) == Among({k \in lo..hi : ByteOff(s, k) = b})
        Upto(extra) == Within(IF b - extra < 0 THEN 0 ELSE b - extra,
                              IF b < Len(s) THEN b ELSE Len(s))
    IN  Upto(ByteLen(s) - Len(s))

\* &s[a..b] with byte offsets: panics unless a <= b and both are char boundaries
ByteSlice(s, a, b) ==
    LET Chars(ka, kb) ==
            IF a > b \/ ka = -1 \/ kb = -1
            THEN [panic |-> TRUE, str |-> <<>>]
            ELSE [panic |-> FALSE, str |-> SubSeq(s, ka + 1, kb)]
    IN  Chars(CharIndexOfByte(s, a), CharIndexOfByte(s, b))

\* ------------------------------------------------------------------------
\* Regex pieces
\* ------------------------------------------------------------------------

\* the least element of S, none when S is empty: a regex search reports the
\* leftmost match, a scan stops at the first character it looks for
FirstIn(S, none) == IF S = {} THEN none ELSE CHOOSE x \in S : \A y \in S : x <= y

\* literal lit matches s at char offset p; ci: under (?i)
MatchLit(s, p, lit, ci) ==
    /\ p + Len(lit) <= Len(s)
    /\ \A k \in 1..Len(lit) :
          IF ci THEN FoldCase(s[p + k]) = FoldCase(lit[k]) ELSE s[p + k] = lit[k]

\* \s* (greedy): offset of the first non-space char at or after p
RECURSIVE SkipWs(_, _)
SkipWs(s, p) == IF p < Len(s) /\ IsSpace(s[p + 1]) THEN SkipWs(s, p + 1) ELSE p

\* [^;]* (greedy): offset of the first ';' at or after p, Len(s) if none
SkipNotSemi(s, p) == FirstIn({q \in p..(Len(s) - 1) : s[q + 1] = ";"}, Len(s))

\* ------------------------------------------------------------------------
\* extract_block
\* ------------------------------------------------------------------------

BlockLines == <<"d","r","a","w","L","i","n","e","s">>
BlockQuads == <<"d","r","a","w","Q","u","a","d","s">>

\* NAME[\s\n]*\{ anchored at char offset p: char offset after the '{', or -1
HeaderMatchAt(s, p, block_name) ==
    LET Brace(q) == IF q < Len(s) /\ s[q + 1] = "{" THEN q + 1 ELSE -1
    IN  IF ~MatchLit(s, p, block_name, FALSE) THEN -1
        ELSE Brace(SkipWs(s, p + Len(block_name)))

\* re.find(text): leftmost match; mat.end() is a BYTE offset
HeaderFind(text, block_name) ==
    LET At(p) ==
            IF p = -1 THEN [found |-> FALSE, end |-> 0]
            ELSE [found |-> TRUE, end |-> ByteOff(text, HeaderMatchAt(text, p, block_name))]
    IN  At(FirstIn({p \in 0..Len(text) : HeaderMatchAt(text, p, block_name) # -1}, -1))

\* the index of the first brace at or after i, Len(chars) if none: the loop
\* iterations before it match `_ => {}` and only add 1 to i
NextBrace(chars, i) ==
    FirstIn({j \in i..(Len(chars) - 1) : chars[j + 1] \in {"{", "}"}}, Len(chars))

\* the while loop, from one brace to the next: i indexes chars (Vec<char>);
\* the index at which depth reaches 0, or -1 when the loop runs off the end
RECURSIVE ScanBraces(_, _, _)
ScanBraces(chars, i, depth) ==
    LET At(j) ==
            IF ~(j < Len(chars)) THEN -1
            ELSE IF chars[j + 1] = "{" THEN ScanBraces(chars, j + 1, depth + 1)
            ELSE IF depth - 1 = 0 THEN j
            ELSE ScanBraces(chars, j + 1, depth - 1)
    IN  At(NextBrace(chars, i))

\* variant: a block name that is not found is an error (re.find(..).unwrap())
extract_block_strict(text, block_name) ==
    LET Upto(start, i) ==
            IF i = -1 THEN [panic |-> FALSE, str |-> <<>>]
            ELSE ByteSlice(text, start, i)
        From(start) == Upto(start, ScanBraces(text, start, 1))
        After(mat) ==
            IF ~mat.found THEN [panic |-> TRUE, str |-> <<>>]
            ELSE From(mat.end)
    IN  After(HeaderFind(text, block_name))

\* extract_block(text, block_name): [panic, str]
extract_block(text, block_name) ==
    LET Upto(start, i) ==
            IF i = -1 THEN [panic |-> FALSE, str |-> <<>>]
            ELSE ByteSlice(text, start, i)
        From(start) == Upto(start, ScanBraces(text, start, 1))
        After(mat) ==
            IF ~mat.found THEN [panic |-> FALSE, str |-> <<>>]
            ELSE From(mat.end)
    IN  After(HeaderFind(text, block_name))

\* ------------------------------------------------------------------------
\* Coordinate text: split(','), trim, str::parse::<f64>
\* ------------------------------------------------------------------------

\* str::split(','): always at least one piece; "a," gives <<"a", "">>
RECURSIVE Split(_)
Split(s) ==
    LET At(k) ==
            IF k = 0 THEN <<s>>
            ELSE <<SubSeq(s, 1, k - 1)>> \o Split(SubSeq(s, k + 1, Len(s)))
    IN  At(FirstIn({k \in 1..Len(s) : s[k] = ","}, 0))

\* str::trim: drop leading and trailing White_Space
RECURSIVE TrimEnd(_)
TrimEnd(s) == IF Len(s) > 0 /\ IsSpace(s[Len(s)]) THEN TrimEnd(SubSeq(s, 1, Len(s) - 1)) ELSE s

Trim(s) == TrimEnd(SubSeq(s, SkipWs(s, 0) + 1, Len(s)))

Digits == <<"0","1","2","3","4","5","6","7","8","9">>
IsDigit(c) == \E d \in 1..10 : Digits[d] = c
DigitVal(c) == (CHOOSE d \in 1..10 : Digits[d] = c) - 1

\* offset of the first non-digit at or after p
RECURSIVE SkipDigits(_, _)
SkipDigits(s, p) == IF p < Len(s) /\ IsDigit(s[p + 1]) THEN SkipDigits(s, p + 1) ELSE p

\* value of a digit string (empty: 0)
RECURSIVE DigitsVal(_)
DigitsVal(ds) ==
    IF ds = <<>> THEN 0 ELSE 10 * DigitsVal(SubSeq(ds, 1, Len(ds) - 1)) + DigitVal(ds[Len(ds)])

\* A float value: m * 10^e with m not a multiple of 10 (m = 0: e = 0), the
\* sign kept apart (-0.0 is a value of f64); or an infinity; or NaN.  The
\* decimal stands for the f64 nearest to it.
RECURSIVE Finite(_, _, _)
Finite(neg, m, e) ==
    IF m = 0 THEN [k |-> "finite", neg |-> neg, m |-> 0, e |-> 0]
    ELSE IF m % 10 = 0 THEN Finite(neg, m \div 10, e + 1)
    ELSE [k |-> "finite", neg |-> neg, m |-> m, e |-> e]

Infinite(neg) == [k |-> "inf", neg |-> neg, m |-> 0, e |-> 0]
NaN == [k |-> "nan", neg |-> FALSE, m |-> 0, e |-> 0]
ParseError == [ok |-> FALSE, val |-> NaN]

WordNan == <<"n","a","n">>
WordInf == <<"i","n","f">>
WordInfinity == <<"i","n","f","i","n","i","t","y">>

\* <f64 as FromStr>::from_str: [sign] (digits [. digits] | . digits) [(e|E) [sign] digits]
\* or [sign] inf | infinity | nan (any case); the whole string must be used
ParseF64(s) ==
    LET neg == s[1] = "-"
        p0  == IF s[1] \in {"-", "+"} THEN 1 ELSE 0
        Word(rest) ==
            IF rest = WordNan THEN [ok |-> TRUE, val |-> NaN]
            ELSE IF rest \in {WordInf, WordInfinity} THEN [ok |-> TRUE, val |-> Infinite(neg)]
            ELSE ParseError
        Scaled(mant, exp, eneg, frac) ==
            Finite(neg, mant, (IF eneg THEN -exp ELSE exp) - frac)
        \* integer digits p0..p1, fraction digits f0..p2, exponent digits e0..e1
        Number(p1, f0, p2, hasE, eneg, e0, e1) ==
            IF (p1 - p0) + (p2 - f0) > 0 /\ (~hasE \/ e1 > e0) /\ e1 = Len(s)
            THEN [ok |-> TRUE,
                  val |-> Scaled(DigitsVal(SubSeq(s, p0 + 1, p1) \o SubSeq(s, f0 + 1, p2)),
                                 IF hasE THEN DigitsVal(SubSeq(s, e0 + 1, e1)) ELSE 0,
                                 eneg, p2 - f0)]
            ELSE Word([k \in 1..(Len(s) - p0) |-> FoldCase(s[p0 + k])])
        ExpDigits(p1, f0, p2, hasE, eneg, e0) ==
            Number(p1, f0, p2, hasE, eneg, e0, IF hasE THEN SkipDigits(s, e0) ELSE p2)
        ExpSign(p1, f0, p2, hasE, signed) ==
            ExpDigits(p1, f0, p2, hasE, signed /\ s[p2 + 2] = "-",
                      IF signed THEN p2 + 2 ELSE p2 + 1)
        Exponent(p1, f0, p2, hasE) ==
            ExpSign(p1, f0, p2, hasE, hasE /\ p2 + 1 < Len(s) /\ s[p2 + 2] \in {"-", "+"})
        Fraction(p1, f0, p2) ==
            Exponent(p1, f0, p2, p2 < Len(s) /\ s[p2 + 1] \in {"e", "E"})
        Mantissa(p1, dot) ==
            Fraction(p1, IF dot THEN p1 + 1 ELSE p1, IF dot THEN SkipDigits(s, p1 + 1) ELSE p1)
        Integer(p1) == Mantissa(p1, p1 < Len(s) /\ s[p1 + 1] = ".")
    IN  IF s = <<>> THEN ParseError
        ELSE IF p0 = Len(s) THEN ParseError
        ELSE Integer(SkipDigits(s, p0))

\* .split(',').map(|s| s.trim().parse().unwrap()).collect(): the parses of
\* the pieces, in order; unwrap panics when any of them is not ok
ParseCoords(s) ==
    LET Each(pieces) == [k \in 1..Len(pieces) |-> ParseF64(Trim(pieces[k]))]
    IN  Each(Split(s))

AnyParseError(coords) == \E k \in 1..Len(coords) : ~coords[k].ok

\* ------------------------------------------------------------------------
\* The two record patterns
\* ------------------------------------------------------------------------

NoMatch == [ok |-> FALSE, end |-> 0, caps |-> <<>>]

LitLine     == <<"l","i","n","e">>
LitLineOpen == <<"{","l","i","n","e",":","p","4","=">>
LitMove     == <<";","m","o","v","e",":","b","=">>
LitTrue     == <<"t","r","u","e">>
LitFalse    == <<"f","a","l","s","e">>
LitClose    == <<";","}">>

\* (?i)line\s*\{line:p4=([^;]+);move:b=(true|false);\}  anchored at offset p
LineMatchAt(s, p) ==
    LET Bool(b0) ==
            IF MatchLit(s, b0, LitTrue, TRUE) THEN b0 + Len(LitTrue)
            ELSE IF MatchLit(s, b0, LitFalse, TRUE) THEN b0 + Len(LitFalse)
            ELSE -1
        Close(c0, c1, b0, b1) ==
            IF b1 # -1 /\ MatchLit(s, b1, LitClose, TRUE)
            THEN [ok |-> TRUE, end |-> b1 + Len(LitClose),
                  caps |-> <<SubSeq(s, c0 + 1, c1), SubSeq(s, b0 + 1, b1)>>]
            ELSE NoMatch
        Move(c0, c1) ==
            IF c1 > c0 /\ MatchLit(s, c1, LitMove, TRUE)
            THEN Close(c0, c1, c1 + Len(LitMove), Bool(c1 + Len(LitMove)))
            ELSE NoMatch
        Open(q) ==
            IF MatchLit(s, q, LitLineOpen, TRUE)
            THEN Move(q + Len(LitLineOpen), SkipNotSemi(s, q + Len(LitLineOpen)))
            ELSE NoMatch
    IN  IF ~MatchLit(s, p, LitLine, TRUE) THEN NoMatch
        ELSE Open(SkipWs(s, p + Len(LitLine)))

LitQuad   == <<"q","u","a","d">>
LitQuadTl == <<"{","t","l",":","p","2">>
LitTr     == <<"t","r",":","p","2">>
LitBr     == <<"b","r",":","p","2">>
LitBl     == <<"b","l",":","p","2">>

\* LABEL\s*=\s*([^;]+);  anchored at offset p.  \s* is greedy and gives one
\* character back when the run up to the ';' is all white space.
QuadField(s, p, label) ==
    LET Capture(r0, w, e) ==
            IF e > r0 /\ e < Len(s)
            THEN [ok |-> TRUE, end |-> e + 1,
                  caps |-> <<SubSeq(s, (IF w < e THEN w ELSE e - 1) + 1, e)>>]
            ELSE NoMatch
        Equals(q) ==
            IF q < Len(s) /\ s[q + 1] = "="
            THEN Capture(q + 1, SkipWs(s, q + 1), SkipNotSemi(s, q + 1))
            ELSE NoMatch
    IN  IF ~MatchLit(s, p, label, TRUE) THEN NoMatch
        ELSE Equals(SkipWs(s, p + Len(label)))

\* (?i)quad\s*\{tl:p2\s*=\s*([^;]+);\s*tr:p2\s*=\s*([^;]+);\s*br:p2\s*=\s*([^;]+);\s*bl:p2\s*=\s*([^;]+);\}
QuadMatchAt(s, p) ==
    LET Close(f1, f2, f3, f4) ==
            IF f4.ok /\ f4.end < Len(s) /\ s[f4.end + 1] = "}"
            THEN [ok |-> TRUE, end |-> f4.end + 1,
                  caps |-> f1.caps \o f2.caps \o f3.caps \o f4.caps]
            ELSE NoMatch
        Bl(f1, f2, f3) ==
            IF f3.ok THEN Close(f1, f2, f3, QuadField(s, SkipWs(s, f3.end), LitBl))
            ELSE NoMatch
        Br(f1, f2) ==
            IF f2.ok THEN Bl(f1, f2, QuadField(s, SkipWs(s, f2.end), LitBr))
            ELSE NoMatch
        Tr(f1) ==
            IF f1.ok THEN Br(f1, QuadField(s, SkipWs(s, f1.end), LitTr))
            ELSE NoMatch
    IN  IF ~MatchLit(s, p, LitQuad, TRUE) THEN NoMatch
        ELSE Tr(QuadField(s, SkipWs(s, p + Len(LitQuad)), LitQuadTl))

\* one step of line_re.captures_iter: the leftmost match at or after from
NextLine(s, from) ==
    LET At(p) == IF p = -1 THEN NoMatch ELSE LineMatchAt(s, p)
    IN  At(FirstIn({p \in from..Len(s) : LineMatchAt(s, p).ok}, -1))

\* one step of quad_re.captures_iter: the leftmost match at or after from
NextQuad(s, from) ==
    LET At(p) == IF p = -1 THEN NoMatch ELSE QuadMatchAt(s, p)
    IN  At(FirstIn({p \in from..Len(s) : QuadMatchAt(s, p).ok}, -1))

\* ------------------------------------------------------------------------
\* Shapes and the collection (BTreeMap<String, Shape>)
\* ------------------------------------------------------------------------

\* i32::to_string
RECURSIVE ToDecimal(_)
ToDecimal(n) ==
    IF n < 0 THEN <<"-">> \o ToDecimal(-n)
    ELSE IF n < 10 THEN <<Digits[n + 1]>>
    ELSE ToDecimal(n \div 10) \o <<Digits[(n % 10) + 1]>>

Point(x, y) == [x |-> x, y |-> y]

LabelLine == <<"U+041B","U+0438","U+043D","U+0438","U+044F">>
LabelQuad == <<"U+0427","U+0435","U+0442","U+044B","U+0440","U+0451","U+0445","U+0443",
               "U+0433","U+043E","U+043B","U+044C","U+043D","U+0438","U+043A">>

\* variant: start and end take the coordinates in the order x1, x2, y1, y2
LineShapeSwapped(idx, coords) ==
    [name     |-> LabelLine \o ToDecimal(idx),
     typ      |-> "line",
     start    |-> Point(coords[1], coords[3]),
     end      |-> Point(coords[2], coords[4]),
     selected |-> FALSE]

\* Shape::Line { .. } built from the four parsed coordinates
LineShape(idx, coords) ==
    [name     |-> LabelLine \o ToDecimal(idx),
     typ      |-> "line",
     start    |-> Point(coords[1], coords[2]),
     end      |-> Point(coords[3], coords[4]),
     selected |-> FALSE]

\* Shape::Quad { .. } built from the four parsed points
QuadShape(idx, points) ==
    [name     |-> LabelQuad \o ToDecimal(idx),
     typ      |-> "quad",
     pos1     |-> Point(points[1][1], points[1][2]),
     pos2     |-> Point(points[2][1], points[2][2]),
     pos3     |-> Point(points[3][1], points[3][2]),
     pos4     |-> Point(points[4][1], points[4][2]),
     selected |-> FALSE]

\* BTreeMap::new()
EmptyMap == [k \in {} |-> FALSE]

\* BTreeMap::insert: a present key is overwritten
Insert(map, key, shape) ==
    [k \in DOMAIN map \cup {key} |-> IF k = key THEN shape ELSE map[k]]

\* byte value of the characters a key is made of
CharCode(c) == IF c = "-" THEN 45 ELSE 48 + DigitVal(c)

\* <String as Ord>::lt: lexicographic on bytes
StrLess(a, b) ==
    \E k \in 1..Len(b) :
        /\ k <= Len(a) + 1
        /\ \A j \in 1..(k - 1) : a[j] = b[j]
        /\ (k = Len(a) + 1 \/ CharCode(a[k]) < CharCode(b[k]))

\* BTreeMap iteration (serde_json::to_string_pretty): the keys in Ord order
IterOrder(map) ==
    [i \in 1..Cardinality(DOMAIN map) |->
        CHOOSE k \in DOMAIN map : Cardinality({j \in DOMAIN map : StrLess(j, k)}) = i - 1]

\* ------------------------------------------------------------------------
\* What parse_input hands to its caller
\* ------------------------------------------------------------------------

NotReturned == [status |-> "none", shapes |-> EmptyMap]

\* Ok(result)
OkResult(result) == [status |-> "Ok", shapes |-> result]

\* variant: a bad record ends the loop and what was parsed so far is returned
PartialResult(result) == [status |-> "Ok", shapes |-> result]

\* return Err(anyhow!(..)): the map built so far is dropped
ErrResult(result) == [status |-> "Err", shapes |-> EmptyMap]

\* unwrap() on a failed parse, or a bad str slice: the thread unwinds
PanicResult(result) == [status |-> "Panic", shapes |-> EmptyMap]

\* ------------------------------------------------------------------------
\* Input texts.  A scene describes a source file: its layout, the text in
\* front of the blocks, the text at the head and at the tail of each block
\* body, the white space between a block name and its '{', and the records
\* of each block.  Render(scene) is the file's content.
\* ------------------------------------------------------------------------

MaxLines == 10
MaxQuads == 2
MaxPad == 1

LineForms == {"canon", "nomove", "upper", "padded", "dec", "spaced", "arity3", "junk", "arityjunk"}
QuadForms == {"canon", "spaced", "arity", "junk", "misordered"}

\* coordinates of the j-th line record and of the j-th quad record of a scene
LineC(j) == <<j - 1, j, j + 1, j + 2>>
QuadC(j) == [k \in 1..8 |-> 10 * j + k - 1]

LineRec(form, j) == [form |-> form, c |-> LineC(j)]
QuadRec(form, j) == [form |-> form, c |-> QuadC(j)]

RECURSIVE JoinInts(_)
JoinInts(c) ==
    IF Len(c) = 0 THEN <<>>
    ELSE IF Len(c) = 1 THEN ToDecimal(c[1])
    ELSE ToDecimal(c[1]) \o <<",">> \o JoinInts(Tail(c))

TxtLine      == <<"l","i","n","e">>
TxtLineUpper == <<"L","I","N","E">>
TxtP4        == <<"{","l","i","n","e",":","p","4","=">>
TxtMoveTrue  == <<";","m","o","v","e",":","b","=","t","r","u","e",";","}">>
TxtMoveFalse == <<";","m","o","v","e",":","b","=","f","a","l","s","e",";","}">>
TxtSpacedP4  == <<" ","{"," ","l","i","n","e",":","p","4"," ","="," ">>
TxtSpacedEnd == <<" ",";"," ","m","o","v","e",":","b","=","t","r","u","e"," ",";"," ","}">>
TxtDec       == <<"+","1",".","5","0",",","-",".","5",",","2","e","1",",","5",".">>

RenderLine(rec) ==
    LET c == rec.c
        f == rec.form
    IN  CASE f = "canon"  -> TxtLine \o TxtP4 \o JoinInts(c) \o TxtMoveTrue
          [] f = "nomove" -> TxtLine \o TxtP4 \o JoinInts(c) \o TxtMoveFalse
          [] f = "upper"  -> TxtLineUpper \o <<" ", "\n">> \o TxtP4 \o JoinInts(c) \o TxtMoveTrue
          [] f = "padded" -> TxtLine \o TxtP4 \o <<" ">> \o ToDecimal(c[1]) \o <<",", " ">>
                             \o ToDecimal(c[2]) \o <<" ", ",", "\t">> \o ToDecimal(c[3])
                             \o <<",", " ">> \o ToDecimal(c[4]) \o <<" ">> \o TxtMoveFalse
          [] f = "dec"    -> TxtLine \o TxtP4 \o TxtDec \o TxtMoveTrue
          [] f = "spaced" -> TxtLineUpper \o TxtSpacedP4 \o JoinInts(c) \o TxtSpacedEnd
          [] f = "arity3" -> TxtLine \o TxtP4 \o JoinInts(SubSeq(c, 1, 3)) \o TxtMoveTrue
          [] f = "junk"   -> TxtLine \o TxtP4 \o JoinInts(SubSeq(c, 1, 2)) \o <<",", "x", ",">>
                             \o ToDecimal(c[4]) \o TxtMoveTrue
          [] f = "arityjunk" -> TxtLine \o TxtP4 \o JoinInts(SubSeq(c, 1, 2)) \o <<",">> \o TxtMoveTrue

TxtQuad      == <<"q","u","a","d">>
TxtQuadUpper == <<"Q","U","A","D">>
TxtTl == <<"t","l",":","p","2">>
TxtTr == <<"t","r",":","p","2">>
TxtBr == <<"b","r",":","p","2">>
TxtBl == <<"b","l",":","p","2">>

Pair(c, k) == ToDecimal(c[2 * k - 1]) \o <<",">> \o ToDecimal(c[2 * k])

RenderQuad(rec) ==
    LET c == rec.c
        f == rec.form
    IN  CASE f = "canon" ->
               TxtQuad \o <<"{">> \o TxtTl \o <<"=">> \o Pair(c, 1) \o <<";">>
               \o TxtTr \o <<"=">> \o Pair(c, 2) \o <<";">>
               \o TxtBr \o <<"=">> \o Pair(c, 3) \o <<";">>
               \o TxtBl \o <<"=">> \o Pair(c, 4) \o <<";", "}">>
          [] f = "spaced" ->
               TxtQuadUpper \o <<"\t", "{">> \o TxtTl \o <<" ", "=", " ">>
               \o ToDecimal(c[1]) \o <<",", " ">> \o ToDecimal(c[2]) \o <<" ", ";", "\n", " ">>
               \o TxtTr \o <<" ", "=">> \o Pair(c, 2) \o <<";", " ">>
               \o TxtBr \o <<"=", " ">> \o Pair(c, 3) \o <<";">>
               \o TxtBl \o <<"=">> \o Pair(c, 4) \o <<";", "}">>
          [] f = "arity" ->
               TxtQuad \o <<"{">> \o TxtTl \o <<"=">> \o Pair(c, 1) \o <<";">>
               \o TxtTr \o <<"=">> \o ToDecimal(c[3]) \o <<";">>
               \o TxtBr \o <<"=">> \o Pair(c, 3) \o <<";">>
               \o TxtBl \o <<"=">> \o Pair(c, 4) \o <<";", "}">>
          [] f = "junk" ->
               TxtQuad \o <<"{">> \o TxtTl \o <<"=">> \o Pair(c, 1) \o <<";">>
               \o TxtTr \o <<"=">> \o Pair(c, 2) \o <<";">>
               \o TxtBr \o <<"=">> \o ToDecimal(c[5]) \o <<",", "y", ";">>
               \o TxtBl \o <<"=">> \o Pair(c, 4) \o <<";", "}">>
          [] f = "misordered" ->
               TxtQuad \o <<"{">> \o TxtTr \o <<"=">> \o Pair(c, 2) \o <<";">>
               \o TxtTl \o <<"=">> \o Pair(c, 1) \o <<";">>
               \o TxtBr \o <<"=">> \o Pair(c, 3) \o <<";">>
               \o TxtBl \o <<"=">> \o Pair(c, 4) \o <<";", "}">>

\* the records of a body, each followed by a line break
RECURSIVE RenderLines(_)
RenderLines(recs) ==
    IF recs = <<>> THEN <<>> ELSE RenderLine(Head(recs)) \o <<"\n">> \o RenderLines(Tail(recs))

RECURSIVE RenderQuads(_)
RenderQuads(recs) ==
    IF recs = <<>> THEN <<>> ELSE RenderQuad(Head(recs)) \o <<"\n">> \o RenderQuads(Tail(recs))

LBody(sc) == sc.head \o RenderLines(sc.lrecs) \o sc.tail
QBody(sc) == sc.head \o RenderQuads(sc.qrecs) \o sc.tail

OpenL(sc) == BlockLines \o sc.hws \o <<"{">>
OpenQ(sc) == BlockQuads \o sc.hws \o <<"{">>
BlockL(sc) == OpenL(sc) \o LBody(sc) \o <<"}">>
BlockQ(sc) == OpenQ(sc) \o QBody(sc) \o <<"}">>

Layouts == {"LQ", "QL", "L", "Q", "none", "nestedQ", "nestedL", "untermL", "untermQ", "bareL"}

Render(sc) ==
    LET lay == sc.lay
    IN  sc.pre \o
        CASE lay = "LQ"      -> BlockL(sc) \o <<"\n">> \o BlockQ(sc)
          [] lay = "QL"      -> BlockQ(sc) \o <<"\n">> \o BlockL(sc)
          [] lay = "L"       -> BlockL(sc) \o <<"\n">>
          [] lay = "Q"       -> BlockQ(sc)
          [] lay = "none"    -> <<"s","c","e","n","e","{">> \o LBody(sc) \o QBody(sc) \o <<"}">>
          [] lay = "nestedQ" -> OpenL(sc) \o LBody(sc) \o BlockQ(sc) \o <<"\n", "}">>
          [] lay = "nestedL" -> OpenQ(sc) \o QBody(sc) \o BlockL(sc) \o <<"\n", "}">>
          [] lay = "untermL" -> OpenL(sc) \o LBody(sc) \o <<"\n">> \o BlockQ(sc)
          [] lay = "untermQ" -> BlockL(sc) \o <<"\n">> \o OpenQ(sc) \o QBody(sc)
          [] lay = "bareL"   -> BlockLines \o <<";", "\n">> \o BlockQ(sc)

\* text in front of the blocks: nothing, one two-byte character, a comment
Pres == {<<>>, <<"U+00E9">>,
         <<"/","/","U+041B","U+0438","U+043D","U+0438","U+044F","\n">>}
\* text at the two ends of a block body
Fills == {[head |-> <<>>, tail |-> <<>>],
          [head |-> <<"U+00E9">>, tail |-> <<>>],
          [head |-> <<"\n">>, tail |-> <<"U+00E9">>]}
Gaps == {<<>>, <<" ", "\n">>}

Scene(lay, pre, fill, hws, lrecs, qrecs) ==
    [lay |-> lay, pre |-> pre, head |-> fill.head, tail |-> fill.tail, hws |-> hws,
     lrecs |-> lrecs, qrecs |-> qrecs]

Plain(lrecs, qrecs) == Scene("LQ", <<>>, [head |-> <<>>, tail |-> <<>>], <<>>, lrecs, qrecs)

\* n well-formed records
CanonLines(n) == [j \in 1..n |-> LineRec("canon", j)]
CanonQuads(n) == [j \in 1..n |-> QuadRec("canon", j)]

\* a record of form f with a records before it and b after it
LinesWith(f, a, b) == [j \in 1..(a + 1 + b) |-> LineRec(IF j = a + 1 THEN f ELSE "canon", j)]
QuadsWith(f, a, b) == [j \in 1..(a + 1 + b) |-> QuadRec(IF j = a + 1 THEN f ELSE "canon", j)]

\* files of many well-formed records
ScenesCounts == {Plain(CanonLines(n), CanonQuads(m)) : n \in 0..MaxLines, m \in 0..MaxQuads}

\* files with one record of each form among well-formed ones
ScenesForms ==
    {Plain(LinesWith(f, a, b), CanonQuads(m)) :
        f \in LineForms, a \in 0..MaxPad, b \in 0..MaxPad, m \in 0..1}
    \cup {Plain(CanonLines(n), QuadsWith(f, a, b)) :
        f \in QuadForms, a \in 0..MaxPad, b \in 0..MaxPad, n \in 0..1}
    \cup {Plain(LinesWith(f, 0, 0), QuadsWith(g, 0, 0)) : f \in LineForms, g \in QuadForms}

\* files of every layout, with and without characters outside ASCII
ScenesLayouts ==
    {Scene(lay, pre, fill, hws, CanonLines(n), CanonQuads(m)) :
        lay \in Layouts, pre \in Pres, fill \in Fills, hws \in Gaps, n \in 0..1, m \in 0..1}

Scenes == ScenesCounts \cup ScenesForms \cup ScenesLayouts

\* ------------------------------------------------------------------------
\* parse_input
\* ------------------------------------------------------------------------

VARIABLES
    scene,          \* the description of the file being converted
    text,           \* parse_input's argument
    pc,             \* "extract_lines", "extract_quads", "lines", "quads", "done"
    lines_block,
    quads_block,
    combined_text,
    pos,            \* where captures_iter looks for its next match
    idx,
    result,
    returned        \* what the call handed back: status none, Ok, Err, Panic

vars == <<scene, text, pc, lines_block, quads_block, combined_text, pos, idx, result, returned>>

Init ==
    /\ scene \in Scenes
    /\ text = Render(scene)
    /\ pc = "extract_lines"
    /\ lines_block = <<>>
    /\ quads_block = <<>>
    /\ combined_text = <<>>
    /\ pos = 0
    /\ idx = 0
    /\ result = EmptyMap
    /\ returned = NotReturned

\* let lines_block = extract_block(text, "drawLines");
ExtractLinesBlock ==
    /\ pc = "extract_lines"
    /\ \E b \in {extract_block(text, BlockLines)} :
           IF b.panic
           THEN /\ pc' = "done"
                /\ returned' = PanicResult(result)
                /\ UNCHANGED lines_block
           ELSE /\ pc' = "extract_quads"
                /\ lines_block' = b.str
                /\ UNCHANGED returned
    /\ UNCHANGED <<scene, text, quads_block, combined_text, pos, idx, result>>

\* let quads_block = extract_block(text, "drawQuads");
\* let combined_text = format!("{}\n{}", lines_block, quads_block);
ExtractQuadsBlock ==
    /\ pc = "extract_quads"
    /\ \E b \in {extract_block(text, BlockQuads)} :
           IF b.panic
           THEN /\ pc' = "done"
                /\ returned' = PanicResult(result)
                /\ UNCHANGED <<quads_block, combined_text>>
           ELSE /\ pc' = "lines"
                /\ quads_block' = b.str
                /\ combined_text' = lines_block \o <<"\n">> \o b.str
                /\ UNCHANGED returned
    /\ UNCHANGED <<scene, text, lines_block, pos, idx, result>>

\* one iteration of: for cap in line_re.captures_iter(&combined_text)
LineRecord ==
    /\ pc = "lines"
    /\ \E cap \in {NextLine(combined_text, pos)} :
        /\ cap.ok
        /\ \E coords_str \in {Trim(cap.caps[1])} :
           \E coords \in {ParseCoords(coords_str)} :
              IF AnyParseError(coords)
              THEN /\ pc' = "done"
                   /\ returned' = PanicResult(result)
                   /\ UNCHANGED <<pos, idx, result>>
              ELSE IF Len(coords) # 4
              THEN /\ pc' = "done"
                   /\ returned' = ErrResult(result)
                   /\ UNCHANGED <<pos, idx, result>>
              ELSE /\ result' = Insert(result, ToDecimal(idx),
                                       LineShape(idx, [k \in 1..4 |-> coords[k].val]))
                   /\ idx' = idx + 1
                   /\ pos' = cap.end
                   /\ UNCHANGED <<pc, returned>>
    /\ UNCHANGED <<scene, text, lines_block, quads_block, combined_text>>

\* variant: the index starts again at 0 for the quads
LinesEndReset ==
    /\ pc = "lines"
    /\ ~NextLine(combined_text, pos).ok
    /\ pc' = "quads"
    /\ pos' = 0
    /\ idx' = 0
    /\ UNCHANGED <<scene, text, lines_block, quads_block, combined_text, result, returned>>

\* the line loop ends: captures_iter has no further match
LinesEnd ==
    /\ pc = "lines"
    /\ ~NextLine(combined_text, pos).ok
    /\ pc' = "quads"
    /\ pos' = 0
    /\ UNCHANGED <<scene, text, lines_block, quads_block, combined_text, idx, result, returned>>

\* one iteration of: for cap in quad_re.captures_iter(&combined_text)
QuadRecord ==
    /\ pc = "quads"
    /\ \E cap \in {NextQuad(combined_text, pos)} :
        /\ cap.ok
        /\ \E points \in {[i \in 1..4 |-> ParseCoords(cap.caps[i])]} :
              IF \E i \in 1..4 : AnyParseError(points[i])
              THEN /\ pc' = "done"
                   /\ returned' = PanicResult(result)
                   /\ UNCHANGED <<pos, idx, result>>
              ELSE IF \E i \in 1..4 : Len(points[i]) # 2
              THEN /\ pc' = "done"
                   /\ returned' = ErrResult(result)
                   /\ UNCHANGED <<pos, idx, result>>
              ELSE /\ result' = Insert(result, ToDecimal(idx),
                                       QuadShape(idx, [i \in 1..4 |->
                                                        [k \in 1..2 |-> points[i][k].val]]))
                   /\ idx' = idx + 1
                   /\ pos' = cap.end
                   /\ UNCHANGED <<pc, returned>>
    /\ UNCHANGED <<scene, text, lines_block, quads_block, combined_text>>

\* the quad loop ends: Ok(result)
QuadsEnd ==
    /\ pc = "quads"
    /\ ~NextQuad(combined_text, pos).ok
    /\ pc' = "done"
    /\ returned' = OkResult(result)
    /\ UNCHANGED <<scene, text, lines_block, quads_block, combined_text, pos, idx, result>>

Next ==
    \/ ExtractLinesBlock
    \/ ExtractQuadsBlock
    \/ LineRecord
    \/ LinesEnd
    \/ QuadRecord
    \/ QuadsEnd

Spec == Init /\ [][Next]_vars

\* ------------------------------------------------------------------------
\* What a scene says about its file
\* ------------------------------------------------------------------------

AllAscii(s) == \A k \in 1..Len(s) : Utf8Len(s[k]) = 1
Ascii(sc) == AllAscii(sc.pre) /\ AllAscii(sc.head) /\ AllAscii(sc.tail)

\* the block name followed by '{' occurs / occurs and its braces balance
HasLinesHeader(sc) == sc.lay \notin {"Q", "none", "bareL"}
HasQuadsHeader(sc) == sc.lay \notin {"L", "none"}
LinesBalanced(sc) == sc.lay \in {"LQ", "QL", "L", "nestedQ", "nestedL", "untermQ"}
QuadsBalanced(sc) == sc.lay \in {"LQ", "QL", "Q", "nestedQ", "nestedL", "untermL", "bareL"}

\* the text strictly between a balanced block's '{' and its matching '}'
TrueBodyL(sc) == IF sc.lay = "nestedQ" THEN LBody(sc) \o BlockQ(sc) \o <<"\n">> ELSE LBody(sc)
TrueBodyQ(sc) == IF sc.lay = "nestedL" THEN QBody(sc) \o BlockL(sc) \o <<"\n">> ELSE QBody(sc)

Extracted(body) == [panic |-> FALSE, str |-> body]

\* the record forms the two patterns accept with well-formed coordinates
LineYield == {"canon", "nomove", "upper", "padded", "dec"}
QuadYield == {"canon", "spaced"}
LineFails == {"arity3", "junk", "arityjunk"}
QuadFails == {"arity", "junk"}

Num(n) == Finite(n < 0, IF n < 0 THEN -n ELSE n, 0)

\* the numbers a line record of a yielding form states, left to right
ExpLineCoords(rec) ==
    IF rec.form = "dec"
    THEN <<[k |-> "finite", neg |-> FALSE, m |-> 15, e |-> -1],
           [k |-> "finite", neg |-> TRUE, m |-> 5, e |-> -1],
           [k |-> "finite", neg |-> FALSE, m |-> 2, e |-> 1],
           [k |-> "finite", neg |-> FALSE, m |-> 5, e |-> 0]>>
    ELSE [k \in 1..4 |-> Num(rec.c[k])]

ExpLine(rec, n) ==
    LET v == ExpLineCoords(rec)
    IN  [name |-> LabelLine \o ToDecimal(n), typ |-> "line",
         start |-> [x |-> v[1], y |-> v[2]], end |-> [x |-> v[3], y |-> v[4]],
         selected |-> FALSE]

ExpQuad(rec, n) ==
    LET c == rec.c
    IN  [name |-> LabelQuad \o ToDecimal(n), typ |-> "quad",
         pos1 |-> [x |-> Num(c[1]), y |-> Num(c[2])],
         pos2 |-> [x |-> Num(c[3]), y |-> Num(c[4])],
         pos3 |-> [x |-> Num(c[5]), y |-> Num(c[6])],
         pos4 |-> [x |-> Num(c[7]), y |-> Num(c[8])],
         selected |-> FALSE]

\* the records of the blocks that are present and balanced
VisL(sc) == IF sc.lay \in {"LQ", "QL", "L", "untermQ"} THEN sc.lrecs ELSE <<>>
VisQ(sc) == IF sc.lay \in {"LQ", "QL", "Q", "untermL", "bareL"} THEN sc.qrecs ELSE <<>>

YieldsLine(rec) == rec.form \in LineYield
YieldsQuad(rec) == rec.form \in QuadYield

\* the shapes of a file, in index order: the lines, then the quads
ExpShapes(sc) ==
    LET ls == SelectSeq(VisL(sc), YieldsLine)
        qs == SelectSeq(VisQ(sc), YieldsQuad)
    IN  [n \in 1..(Len(ls) + Len(qs)) |->
            IF n <= Len(ls) THEN ExpLine(ls[n], n - 1) ELSE ExpQuad(qs[n - Len(ls)], n - 1)]

\* an ASCII file whose blocks do not overlap and whose records all parse
Nice(sc) ==
    /\ Ascii(sc)
    /\ sc.lay \notin {"nestedQ", "nestedL"}
    /\ \A j \in 1..Len(VisL(sc)) : VisL(sc)[j].form \notin LineFails
    /\ \A j \in 1..Len(VisQ(sc)) : VisQ(sc)[j].form \notin QuadFails

\* a key is the decimal string of a number: digits, no leading zero
IsDecimalKey(k) ==
    /\ Len(k) >= 1
    /\ \A j \in 1..Len(k) : IsDigit(k[j])
    /\ (Len(k) > 1 => k[1] # "0")

\* map holds exactly the shapes of seq, the n-th under the decimal key n - 1
HoldsInOrder(map, seq) ==
    /\ Cardinality(DOMAIN map) = Len(seq)
    /\ \A k \in DOMAIN map :
          /\ IsDecimalKey(k)
          /\ DigitsVal(k) < Len(seq)
          /\ map[k] = seq[DigitsVal(k) + 1]

\* every match of the line pattern / the quad pattern in s, in text order
RECURSIVE LineMatchesFrom(_, _)
LineMatchesFrom(s, from) ==
    LET m == NextLine(s, from)
    IN  IF m.ok THEN <<m>> \o LineMatchesFrom(s, m.end) ELSE <<>>

RECURSIVE QuadMatchesFrom(_, _)
QuadMatchesFrom(s, from) ==
    LET m == NextQuad(s, from)
    IN  IF m.ok THEN <<m>> \o QuadMatchesFrom(s, m.end) ELSE <<>>

LineMatches == LineMatchesFrom(combined_text, 0)
QuadMatches == QuadMatchesFrom(combined_text, 0)

\* parse_input got as far as its two loops
Parsing == combined_text # <<>>

LineArityWrong(m) == Len(Split(Trim(m.caps[1]))) # 4
QuadArityWrong(m) == \E i \in 1..4 : Len(Split(m.caps[i])) # 2
LineMalformed(m) == AnyParseError(ParseCoords(Trim(m.caps[1])))
QuadMalformed(m) == \E i \in 1..4 : AnyParseError(ParseCoords(m.caps[i]))

SomeArityWrong ==
    \/ \E j \in 1..Len(LineMatches) : LineArityWrong(LineMatches[j])
    \/ \E j \in 1..Len(QuadMatches) : QuadArityWrong(QuadMatches[j])

SomeMalformed ==
    \/ \E j \in 1..Len(LineMatches) : LineMalformed(LineMatches[j])
    \/ \E j \in 1..Len(QuadMatches) : QuadMalformed(QuadMatches[j])

NumShapes(map, typ) == Cardinality({k \in DOMAIN map : map[k].typ = typ})

Done == pc = "done"

\* the first / the second call of extract_block has been made
LinesExtracted == pc # "extract_lines"
QuadsExtracted == pc \in {"lines", "quads"} \/ (Done /\ ~extract_block(text, BlockLines).panic)

\* ------------------------------------------------------------------------
\* Claims
\* ------------------------------------------------------------------------

\* C1: whenever the text holds NAME, optional white space and '{' with
\* balanced braces, extract_block returns exactly the text between that '{'
\* and its matching '}', also with multi-byte characters in the text.
C1_BalancedExtraction ==
    /\ (LinesExtracted /\ LinesBalanced(scene)) =>
          extract_block(text, BlockLines) = Extracted(TrueBodyL(scene))
    /\ (QuadsExtracted /\ QuadsBalanced(scene)) =>
          extract_block(text, BlockQuads) = Extracted(TrueBodyQ(scene))

\* C2: the counter is the number of entries at every step and is never
\* reset; a successful call over L line matches and Q quad matches returns
\* L+Q entries under the decimal keys 0..L+Q-1, the lines under 0..L-1 and
\* the quads under L..L+Q-1, each pass in order of appearance.
C2_IndexOrder ==
    /\ idx = Cardinality(DOMAIN result)
    /\ \A k \in DOMAIN result : IsDecimalKey(k) /\ DigitsVal(k) < idx
    /\ (Done /\ returned.status = "Ok") =>
          LET L == Len(LineMatches)
              Q == Len(QuadMatches)
              shapes == returned.shapes
          IN  /\ Cardinality(DOMAIN shapes) = L + Q
              /\ \A k \in DOMAIN shapes :
                    /\ IsDecimalKey(k)
                    /\ DigitsVal(k) < L + Q
                    /\ shapes[k].typ = IF DigitsVal(k) < L THEN "line" ELSE "quad"
              /\ Nice(scene) => HoldsInOrder(shapes, ExpShapes(scene))

C2_Witness ==
    /\ Done
    /\ returned.status = "Ok"
    /\ NumShapes(returned.shapes, "line") >= 2
    /\ NumShapes(returned.shapes, "quad") >= 2

\* C3: when a matched record has the wrong number of coordinate components
\* the call fails and returns no shape, whatever was parsed before it; it
\* fails with the arity error when every component of every matched record
\* is a number.
C3_ArityFatal ==
    (Done /\ Parsing /\ SomeArityWrong) =>
        /\ returned.status \in {"Err", "Panic"}
        /\ returned.shapes = EmptyMap
        /\ (~SomeMalformed => returned.status = "Err")

C3_Witness ==
    /\ Done
    /\ returned.status = "Err"
    /\ returned.shapes = EmptyMap
    /\ NumShapes(result, "line") >= 1
    /\ \E j \in 1..Len(QuadMatches) : QuadArityWrong(QuadMatches[j])

\* C4: when a matched record has a component that is not a floating-point
\* number the call ends in an error value (not a panic) and returns no shape.
C4_MalformedIsTypedError ==
    (Done /\ Parsing /\ SomeMalformed) =>
        /\ returned.status = "Err"
        /\ returned.shapes = EmptyMap

\* C5: a line record written "LINE { line:p4 = x1,y1,x2,y2 ; move:b=true ; }"
\* yields the Line shape of the canonical record with the same coordinates.
C5_SpacedLineParses ==
    (Done /\ Nice(scene)) =>
        \A j \in 1..Len(VisL(scene)) :
            VisL(scene)[j].form = "spaced" =>
                \E k \in DOMAIN returned.shapes :
                    LET shape == returned.shapes[k]
                        want  == ExpLine(VisL(scene)[j], 0)
                    IN  /\ shape.typ = "line"
                        /\ shape.start = want.start
                        /\ shape.end = want.end
                        /\ shape.selected = want.selected

\* C6: the serialization order of a returned collection is the ascending
\* numeric order of its keys: 0, 1, 2, ..., 9, 10, 11, ...
C6_NumericIteration ==
    (Done /\ returned.status = "Ok") =>
        LET order == IterOrder(returned.shapes)
        IN  \A i \in 1..Len(order) : DigitsVal(order[i]) = i - 1

\* C7: every shape is unselected and carries the coordinates of one record
\* of the file in the order they are written; the shapes of a file whose
\* records all parse are exactly its records' coordinates, lines then quads,
\* whatever move:b says.
C7_FieldOrder ==
    /\ \A k \in DOMAIN result :
          /\ result[k].selected = FALSE
          /\ \/ \E j \in 1..Len(scene.lrecs) :
                   /\ YieldsLine(scene.lrecs[j])
                   /\ result[k] = ExpLine(scene.lrecs[j], DigitsVal(k))
             \/ \E j \in 1..Len(scene.qrecs) :
                   /\ YieldsQuad(scene.qrecs[j])
                   /\ result[k] = ExpQuad(scene.qrecs[j], DigitsVal(k))
    /\ (Done /\ Nice(scene)) =>
          /\ returned.status = "Ok"
          /\ HoldsInOrder(returned.shapes, ExpShapes(scene))

C7_Witness ==
    /\ Done
    /\ returned.status = "Ok"
    /\ Len(scene.lrecs) = 1 /\ scene.lrecs[1].form = "padded"
    /\ Len(scene.qrecs) = 1 /\ scene.qrecs[1].form = "spaced"
    /\ Cardinality(DOMAIN returned.shapes) = 2

\* C8: when the block name followed by '{' does not occur, or its braces do
\* not balance, extract_block returns the empty string and raises no error.
C8_AbsentIsEmpty ==
    /\ (LinesExtracted /\ ~LinesBalanced(scene)) =>
          extract_block(text, BlockLines) = Extracted(<<>>)
    /\ (QuadsExtracted /\ ~QuadsBalanced(scene)) =>
          extract_block(text, BlockQuads) = Extracted(<<>>)

C10_NoRecordTwice ==
    (Done /\ returned.status = "Ok" /\ Ascii(scene)) =>
        /\ NumShapes(returned.shapes, "line") <= Len(scene.lrecs)
        /\ NumShapes(returned.shapes, "quad") <= Len(scene.qrecs)
====
